---- MODULE Spec2Model ----
(***************************************************************************)
(* WolfWire / TermiCOM serial middleman (src/source_files/main.py).        *)
(*                                                                         *)
(* The model holds the GUI thread running SerialMiddlemanApp's connect /   *)
(* disconnect handlers, the two SerialForwarderThread workers (AtoB and    *)
(* BtoA), the two serial endpoints, the shared QMutex, the display's log   *)
(* and a clock.  Every worker step is one access to something shared (the  *)
(* running flag, an endpoint, the clock, the mutex, the log), so that the  *)
(* interleavings of the three threads are those of the program.            *)
(***************************************************************************)
EXTENDS Integers, Sequences, FiniteSets, TLC

(***************************************************************************)
(* Bounds of the model.                                                    *)
(***************************************************************************)
\* bytes the outside world sends into the two endpoints while they are open
MaxInject == 2
\* poll intervals that pass while the endpoints are open
MaxTicks == 5
\* backoff periods (0.2 s) that pass while the endpoints are open
MaxLongTicks == 1
\* transient endpoint failures (in_waiting, read or write raising) while the
\* endpoints are open
MaxFaults == 1
\* largest bits_per_char and gap_chars a worker is constructed with on its own
MaxArgBits == 12
MaxArgGap == 4

(***************************************************************************)
(* Program constants.                                                      *)
(***************************************************************************)
MinBaud == 300
MinBitsPerChar == 9
MinFlushGapNs == 100000
MinPollHalfNs == 1000000
BackoffNs == 200000000
GapChars == 3
BitsPerCharArg == 10
NsPerSecond == 1000000000
\* baud_rate_combo.setCurrentText("115200")
DefaultBaud == 115200

Ports == {"A", "B"}
Dirs == {"AtoB", "BtoA"}
\* the port names the combo boxes can hold; "" is an empty selection
PortNames == {"COM1", "COM2"}
\* what combo box A can hold (the names being alike, one name is enough for
\* A to be empty, equal to B or different from B)
SelectableA == {"", "COM1"}
\* baud rates of baud_rate_combo the model connects with
Bauds == {19200, 115200}
\* the bytes the outside world sends, in this order, whichever endpoint
\* each goes to: all different, so that a lost, repeated or displaced byte
\* shows, one below 0x10 and one with letter digits for the hex text
ByteStream == <<10, 255, 65, 66, 67, 68>>

Src(w) == IF w = "AtoB" THEN "A" ELSE "B"
Dst(w) == IF w = "AtoB" THEN "B" ELSE "A"

Max(a, b) == IF a >= b THEN a ELSE b

(***************************************************************************)
(* Timing derived in SerialForwarderThread.__init__.                       *)
(***************************************************************************)
ClampBaud(baud) == Max(baud, MinBaud)
ClampBits(bits) == Max(bits, MinBitsPerChar)

\* (variant: the char time rounded up to the next nanosecond)
CharTimeNsRoundedUp(baud, bits) ==
    LET b == ClampBaud(baud)
        c == ClampBits(bits)
    IN  (NsPerSecond \div b) * c + ((NsPerSecond % b) * c + b - 1) \div b

\* int(1e9 * bits_per_char / baud): the quotient is taken in two parts so
\* that no intermediate value leaves 32 bits.
CharTimeNs(baud, bits) ==
    LET b == ClampBaud(baud)
        c == ClampBits(bits)
    IN  (NsPerSecond \div b) * c + ((NsPerSecond % b) * c) \div b

\* (variant: no minimum of 0.1 ms)
FlushGapNsNoFloor(baud, bits, gap_chars) ==
    CharTimeNs(baud, bits) * Max(gap_chars, 1)

FlushGapNs(baud, bits, gap_chars) ==
    Max(CharTimeNs(baud, bits) * Max(gap_chars, 1), MinFlushGapNs)

\* poll_interval_s = max(char_time_ns / 2 / 1e9, 0.0005), held in half
\* nanoseconds so that char_time_ns / 2 stays exact.
PollIntervalHalfNs(baud, bits) == Max(CharTimeNs(baud, bits), MinPollHalfNs)

\* (variant: due after one flush gap)
FlushDueAtGap(now_ns, last_ns, gap_ns) == now_ns - last_ns >= gap_ns

\* (now_ns - last_rx_ns) >= flush_gap_ns * 1.5
\* (both sides are whole or half nanoseconds, so the comparison is taken
\* against 1.5 * gap rounded up)
FlushDue(now_ns, last_ns, gap_ns) == now_ns - last_ns >= (3 * gap_ns + 1) \div 2

(***************************************************************************)
(* Text of a log event.                                                    *)
(***************************************************************************)
HexChars == <<"0", "1", "2", "3", "4", "5", "6", "7",
              "8", "9", "A", "B", "C", "D", "E", "F">>

\* f'{b:02X}'
Hex2(b) == HexChars[(b \div 16) + 1] \o HexChars[(b % 16) + 1]

\* ' '.join(f'{b:02X}' for b in msg_buffer)
RECURSIVE HexData(_)
HexData(buf) ==
    IF buf = <<>> THEN ""
    ELSE IF Len(buf) = 1 THEN Hex2(buf[1])
    ELSE Hex2(buf[1]) \o " " \o HexData(Tail(buf))

Tag(w) == IF w = "AtoB" THEN "[A->B]" ELSE "[A<-B]"
Color(w) == IF w = "AtoB" THEN "#f44250" ELSE "#4285f4"

VARIABLES
    \* ---- GUI thread (SerialMiddlemanApp)
    guiPc,          \* where the GUI thread is
    guiOp,          \* the handler it runs: "none", "toggle", "close"
    serial,         \* serial_A / serial_B: "None" or "Obj"
    isOpen,         \* is_open of the Serial object each handle names
    thread,         \* thread_AtoB / thread_BtoA: "None" or "Obj"
    baud_rate,      \* the baud rate the current pair was built with
    lastError,      \* the last show_error raised by connect_ports
    selection,      \* the texts of com_port_combo_A and com_port_combo_B
                    \* as connect_ports last read them
    built,          \* a SerialForwarderThread constructed on its own: its
                    \* arguments and the timing fields __init__ derived,
                    \* as a sequence of one record, or <<>>
    \* ---- workers (SerialForwarderThread)
    pc,             \* where each worker thread is
    running,        \* self.running
    msg_buffer, msg_start_ns, last_rx_ns,
    in_wait, data,  \* locals of run()
    exc,            \* an exception is propagating out of an emit
    wake,           \* earliest clock value at which the current sleep ends
    write_failed,   \* a write of this worker has raised (history)
    \* ---- shared
    ui_log_mutex,   \* "free" or the worker holding the QMutex
    log,            \* what the display received from the current pair of
                    \* workers, in order
    sinkOk,         \* FALSE once log_signal.emit raises
    \* ---- the world
    rx,             \* bytes waiting unread in each endpoint
    tx,             \* bytes written to each endpoint since it was opened
    injected,       \* bytes that arrived at each endpoint since it was opened,
                    \* each with its arrival time
    sent,           \* bytes that arrived since connect_ports began
    clock,          \* nanoseconds since connect_ports began
    ticks,          \* poll intervals that passed since then
    longTicks,      \* backoff periods that passed since then
    faults          \* transient endpoint failures since then

guiVars == <<guiPc, guiOp, serial, isOpen, thread, baud_rate, lastError, built,
            selection>>
workerVars == <<pc, running, msg_buffer, msg_start_ns, last_rx_ns, in_wait,
                data, exc, wake, write_failed>>
sharedVars == <<ui_log_mutex, log, sinkOk>>
worldVars == <<rx, tx, injected, sent, clock, ticks, longTicks, faults>>
vars == <<guiVars, workerVars, sharedVars, worldVars>>

\* worker thread positions: the thread has ended; it has not been started
Terminated == {"done", "crashed"}
NotStarted == {"none", "new"}

flush_gap_ns == FlushGapNs(baud_rate, BitsPerCharArg, GapChars)
poll_half_ns == PollIntervalHalfNs(baud_rate, BitsPerCharArg)
\* one clock advance: the poll interval, rounded up to a whole nanosecond
TickNs == (poll_half_ns + 1) \div 2

(***************************************************************************)
(* SerialMiddlemanApp.__init__                                             *)
(***************************************************************************)
Init ==
    /\ guiPc = "idle"
    /\ guiOp = "none"
    /\ serial = [p \in Ports |-> "None"]
    /\ isOpen = [p \in Ports |-> FALSE]
    /\ thread = [w \in Dirs |-> "None"]
    /\ baud_rate = DefaultBaud
    /\ lastError = "none"
    /\ built = <<>>
    /\ selection = <<"", "">>
    /\ pc = [w \in Dirs |-> "none"]
    /\ running = [w \in Dirs |-> FALSE]
    /\ msg_buffer = [w \in Dirs |-> <<>>]
    /\ msg_start_ns = [w \in Dirs |-> 0]
    /\ last_rx_ns = [w \in Dirs |-> 0]
    /\ in_wait = [w \in Dirs |-> 0]
    /\ data = [w \in Dirs |-> <<>>]
    /\ exc = [w \in Dirs |-> FALSE]
    /\ wake = [w \in Dirs |-> 0]
    /\ write_failed = [w \in Dirs |-> FALSE]
    /\ ui_log_mutex = "free"
    /\ log = <<>>
    /\ sinkOk = TRUE
    /\ rx = [p \in Ports |-> <<>>]
    /\ tx = [p \in Ports |-> <<>>]
    /\ injected = [p \in Ports |-> <<>>]
    /\ sent = 0
    /\ clock = 0
    /\ ticks = 0
    /\ longTicks = 0
    /\ faults = 0

(***************************************************************************)
(* GUI thread: toggle_connection, connect_ports, disconnect_ports,         *)
(* closeEvent.  The GUI thread runs one handler at a time to completion.   *)
(***************************************************************************)
StopPc(w) == IF w = "AtoB" THEN "d_stopAtoB" ELSE "d_stopBtoA"
WaitPc(w) == IF w = "AtoB" THEN "d_waitAtoB" ELSE "d_waitBtoA"
AfterWaitPc(w) == IF w = "AtoB" THEN "d_stopBtoA" ELSE "d_close"

\* (variant: the test of toggle_connection never finds a connection)
ConnectedNever == FALSE

\* if self.serial_A and self.serial_A.is_open
Connected == serial["A"] = "Obj" /\ isOpen["A"]

ToggleConnection ==
    /\ guiPc = "idle"
    /\ IF Connected
       THEN guiPc' = "d_stopAtoB"
       ELSE guiPc' = "c_validate"
    /\ guiOp' = "toggle"
    /\ UNCHANGED <<serial, isOpen, thread, baud_rate, lastError>>
    /\ UNCHANGED <<workerVars, sharedVars, worldVars>>
    /\ UNCHANGED <<built, selection>>

CloseEvent ==
    /\ guiPc = "idle"
    /\ guiPc' = "d_stopAtoB"
    /\ guiOp' = "close"
    /\ UNCHANGED <<serial, isOpen, thread, baud_rate, lastError>>
    /\ UNCHANGED <<workerVars, sharedVars, worldVars>>
    /\ UNCHANGED <<built, selection>>

\* (variant: equal selections are let through)
ValidationErrorNoDiffer(nports, portA, portB) ==
    IF nports < 2 THEN "not_enough"
    ELSE IF portA = "" \/ portB = "" THEN "select_both"
    ELSE "none"

\* connect_ports up to the opening of the ports: the checks of the port
\* list and of the two selections
ValidationError(nports, portA, portB) ==
    IF nports < 2 THEN "not_enough"
    ELSE IF portA = "" \/ portB = "" THEN "select_both"
    ELSE IF portA = portB THEN "must_differ"
    ELSE "none"

\* (rates: the baud rates the user may have selected; what is recorded of
\* a session, its log, clock and counts, starts afresh here)
ConnectValidate(rates) ==
    /\ guiPc = "c_validate"
    /\ \E nports \in {1, 2}, portA \in SelectableA,
          portB \in PortNames \cup {""}, b \in rates :
         LET err == ValidationError(nports, portA, portB)
         IN  /\ lastError' = err
             /\ selection' = <<portA, portB>>
             /\ IF err = "none"
                THEN guiPc' = "c_openA" /\ baud_rate' = b /\ guiOp' = guiOp
                ELSE guiPc' = "idle" /\ baud_rate' = baud_rate /\ guiOp' = "none"
    /\ log' = <<>> /\ sent' = 0 /\ faults' = 0
    /\ clock' = 0 /\ ticks' = 0 /\ longTicks' = 0
    /\ UNCHANGED <<serial, isOpen, thread>>
    /\ UNCHANGED <<workerVars, ui_log_mutex, sinkOk, rx, tx, injected>>
    /\ UNCHANGED built

\* serial.Serial(port, baud_rate, timeout=1): a new handle on an opened
\* port with nothing received yet, or SerialException
OpenPort(p, nextPc) ==
    \/ /\ serial' = [serial EXCEPT ![p] = "Obj"]
       /\ isOpen' = [isOpen EXCEPT ![p] = TRUE]
       /\ rx' = [rx EXCEPT ![p] = <<>>]
       /\ tx' = [tx EXCEPT ![p] = <<>>]
       /\ injected' = [injected EXCEPT ![p] = <<>>]
       /\ guiPc' = nextPc
    \/ /\ guiPc' = "c_cleanup"
       /\ UNCHANGED <<serial, isOpen, rx, tx, injected>>

ConnectOpenA ==
    /\ guiPc = "c_openA"
    /\ OpenPort("A", "c_openB")
    /\ UNCHANGED <<guiOp, thread, baud_rate, lastError>>
    /\ UNCHANGED <<workerVars, sharedVars, sent, clock, ticks, longTicks, faults>>
    /\ UNCHANGED <<built, selection>>

ConnectOpenB ==
    /\ guiPc = "c_openB"
    /\ OpenPort("B", "c_construct")
    /\ UNCHANGED <<guiOp, thread, baud_rate, lastError>>
    /\ UNCHANGED <<workerVars, sharedVars, sent, clock, ticks, longTicks, faults>>
    /\ UNCHANGED <<built, selection>>

\* (variant: the handles are reset and nothing is closed)
PortsLeftOpen == isOpen

\* if self.serial_X and self.serial_X.is_open: self.serial_X.close()
ClosedPorts == [p \in Ports |-> IF serial[p] = "Obj" THEN FALSE ELSE isOpen[p]]

\* a closed port holds no bytes
DropBuffers ==
    /\ rx' = [p \in Ports |-> <<>>]
    /\ tx' = [p \in Ports |-> <<>>]
    /\ injected' = [p \in Ports |-> <<>>]

\* except serial.SerialException: close what opened, reset both handles
ConnectCleanup ==
    /\ guiPc = "c_cleanup"
    /\ lastError' = IF serial["A"] = "Obj" THEN "open_failed_B" ELSE "open_failed_A"
    /\ isOpen' = ClosedPorts
    /\ serial' = [p \in Ports |-> "None"]
    /\ guiPc' = "idle"
    /\ guiOp' = "none"
    /\ DropBuffers
    /\ UNCHANGED <<thread, baud_rate>>
    /\ UNCHANGED <<workerVars, sharedVars, sent, clock, ticks, longTicks, faults>>
    /\ UNCHANGED <<built, selection>>

\* SerialForwarderThread.__init__ for both directions
ConnectConstruct ==
    /\ guiPc = "c_construct"
    /\ thread' = [w \in Dirs |-> "Obj"]
    /\ pc' = [w \in Dirs |-> "new"]
    /\ running' = [w \in Dirs |-> FALSE]
    /\ msg_buffer' = [w \in Dirs |-> <<>>]
    /\ msg_start_ns' = [w \in Dirs |-> 0]
    /\ last_rx_ns' = [w \in Dirs |-> 0]
    /\ write_failed' = [w \in Dirs |-> FALSE]
    /\ UNCHANGED <<in_wait, data, exc, wake>>
    /\ guiPc' = "c_startAtoB"
    /\ UNCHANGED <<guiOp, serial, isOpen, baud_rate, lastError>>
    /\ UNCHANGED <<sharedVars, worldVars>>
    /\ UNCHANGED <<built, selection>>

\* QThread.start(): the thread is handed to the scheduler; run() begins later
StartThread(w) == pc' = [pc EXCEPT ![w] = "ready"]

ConnectStartAtoB ==
    /\ guiPc = "c_startAtoB"
    /\ StartThread("AtoB")
    /\ guiPc' = "c_startBtoA"
    /\ UNCHANGED <<guiOp, serial, isOpen, thread, baud_rate, lastError>>
    /\ UNCHANGED <<running, msg_buffer, msg_start_ns, last_rx_ns, in_wait, data,
                   exc, wake,
                   write_failed>>
    /\ UNCHANGED <<sharedVars, worldVars>>
    /\ UNCHANGED <<built, selection>>

ConnectStartBtoA ==
    /\ guiPc = "c_startBtoA"
    /\ StartThread("BtoA")
    /\ guiPc' = "c_return"
    /\ UNCHANGED <<guiOp, serial, isOpen, thread, baud_rate, lastError>>
    /\ UNCHANGED <<running, msg_buffer, msg_start_ns, last_rx_ns, in_wait, data,
                   exc, wake,
                   write_failed>>
    /\ UNCHANGED <<sharedVars, worldVars>>
    /\ UNCHANGED <<built, selection>>

\* the UI updates that end connect_ports
ConnectReturn ==
    /\ guiPc = "c_return"
    /\ guiPc' = "idle"
    /\ guiOp' = "none"
    /\ UNCHANGED <<serial, isOpen, thread, baud_rate, lastError>>
    /\ UNCHANGED <<workerVars, sharedVars, worldVars>>
    /\ UNCHANGED <<built, selection>>

\* SerialForwarderThread.stop, called by disconnect_ports when the handle is set
DisconnectStop(w) ==
    /\ guiPc = StopPc(w)
    /\ IF thread[w] = "Obj"
       THEN running' = [running EXCEPT ![w] = FALSE] /\ guiPc' = WaitPc(w)
       ELSE running' = running /\ guiPc' = AfterWaitPc(w)
    /\ UNCHANGED <<guiOp, serial, isOpen, thread, baud_rate, lastError>>
    /\ UNCHANGED <<pc, msg_buffer, msg_start_ns, last_rx_ns, in_wait, data, exc,
                   wake,
                   write_failed>>
    /\ UNCHANGED <<sharedVars, worldVars>>
    /\ UNCHANGED <<built, selection>>

\* thread_X = None: the handle is dropped; the object of a thread that has
\* ended is gone, a thread still running keeps running
DropWorker(w) ==
    IF pc[w] \in Terminated
    THEN /\ pc' = [pc EXCEPT ![w] = "none"]
         /\ running' = [running EXCEPT ![w] = FALSE]
         /\ msg_buffer' = [msg_buffer EXCEPT ![w] = <<>>]
         /\ msg_start_ns' = [msg_start_ns EXCEPT ![w] = 0]
         /\ last_rx_ns' = [last_rx_ns EXCEPT ![w] = 0]
         /\ in_wait' = [in_wait EXCEPT ![w] = 0]
         /\ data' = [data EXCEPT ![w] = <<>>]
         /\ exc' = [exc EXCEPT ![w] = FALSE]
         /\ wake' = [wake EXCEPT ![w] = 0]
         /\ write_failed' = write_failed
    ELSE UNCHANGED workerVars

\* (variant: wait() returns at once)
WaitReturnsAtOnce(w) == TRUE

\* QThread.wait(): returns once run() has returned
WaitReturns(w) == pc[w] \in Terminated

DisconnectWait(w) ==
    /\ guiPc = WaitPc(w)
    /\ WaitReturns(w)
    /\ thread' = [thread EXCEPT ![w] = "None"]
    /\ guiPc' = AfterWaitPc(w)
    /\ DropWorker(w)
    /\ UNCHANGED <<guiOp, serial, isOpen, baud_rate, lastError>>
    /\ UNCHANGED <<sharedVars, worldVars>>
    /\ UNCHANGED <<built, selection>>

\* close both serials, reset both handles, UI back to normal
DisconnectClose ==
    /\ guiPc = "d_close"
    /\ isOpen' = ClosedPorts
    /\ serial' = [p \in Ports |-> "None"]
    /\ guiPc' = IF guiOp = "close" THEN "exited" ELSE "idle"
    /\ guiOp' = "none"
    /\ DropBuffers
    /\ UNCHANGED <<thread, baud_rate, lastError>>
    /\ UNCHANGED <<workerVars, sharedVars, sent, clock, ticks, longTicks, faults>>
    /\ UNCHANGED <<built, selection>>

(***************************************************************************)
(* Emission of one log event under the shared mutex.  The display receives *)
(* an event's text in two parts, the prefix and the rest, so that two      *)
(* emissions running at once would show in the log.                        *)
(***************************************************************************)
Goto(w, p) == pc' = [pc EXCEPT ![w] = p]

Chunk(w, kind, part, text, bytes) ==
    [dir |-> w, kind |-> kind, part |-> part, text |-> text, bytes |-> bytes]

\* (variant: lock() never blocks)
MutexLockNoWait(w) == ui_log_mutex' = w

\* ui_log_mutex.lock(): blocks until the mutex is free
MutexLock(w) ==
    /\ ui_log_mutex = "free"
    /\ ui_log_mutex' = w

\* (variant: the lock is kept after the emit)
MutexUnlockNever(w) == ui_log_mutex' = ui_log_mutex

\* (variant: unlock() outside the finally clause, skipped when emit raised)
MutexUnlockOnSuccess(w) == ui_log_mutex' = IF exc[w] THEN ui_log_mutex ELSE "free"

\* ui_log_mutex.unlock()
MutexUnlock(w) == ui_log_mutex' = "free"

\* the text of each event, prefix and rest (the wall-clock timestamp of a
\* frame's prefix is left out)
FramePrefix(w) == Tag(w) \o " : "
FrameRest(w) == HexData(msg_buffer[w]) \o "\n"
WriteErrPrefix(w) == "[ERROR] write(" \o w \o ")"
LoopErrPrefix(w) == "[ERROR] Forwarding error (" \o w \o ")"

\* log_signal.emit(...): raises when the display collaborator is gone,
\* otherwise starts handing over the text
EmitBegin(w, kind, prefix, tailPc, unlockPc) ==
    IF sinkOk
    THEN /\ log' = Append(log, Chunk(w, kind, "head", prefix, <<>>))
         /\ exc' = exc
         /\ Goto(w, tailPc)
    ELSE /\ log' = log
         /\ exc' = [exc EXCEPT ![w] = TRUE]
         /\ Goto(w, unlockPc)

EmitEnd(w, kind, rest, bytes, unlockPc) ==
    /\ log' = Append(log, Chunk(w, kind, "tail", rest, bytes))
    /\ Goto(w, unlockPc)

\* time.sleep(d) starts: the thread sleeps until the clock has advanced by d
SleepFor(w, d) == wake' = [wake EXCEPT ![w] = clock + d]

(***************************************************************************)
(* SerialForwarderThread.run                                               *)
(***************************************************************************)
\* self.running = True
RunBegin(w) ==
    /\ pc[w] = "ready"
    /\ running' = [running EXCEPT ![w] = TRUE]
    /\ Goto(w, "while")
    /\ UNCHANGED <<msg_buffer, msg_start_ns, last_rx_ns, in_wait, data, exc,
                   wake,
                   write_failed>>
    /\ UNCHANGED <<guiVars, sharedVars, worldVars>>

\* while self.running
WhileRunning(w) ==
    /\ pc[w] = "while"
    /\ Goto(w, IF running[w] THEN "poll" ELSE "final")
    /\ UNCHANGED <<running, msg_buffer, msg_start_ns, last_rx_ns, in_wait, data,
                   exc, wake,
                   write_failed>>
    /\ UNCHANGED <<guiVars, sharedVars, worldVars>>

\* an endpoint operation raises: always on a closed port, and as a transient
\* failure while the budget of failures lasts
Raises(p) == ~isOpen[p] \/ faults < MaxFaults
CountFault(p) == faults' = IF isOpen[p] THEN faults + 1 ELSE faults

\* in_wait = self.source_conn.in_waiting
Poll(w) ==
    /\ pc[w] = "poll"
    /\ isOpen[Src(w)]
    /\ in_wait' = [in_wait EXCEPT ![w] = Len(rx[Src(w)])]
    /\ Goto(w, IF Len(rx[Src(w)]) > 0 THEN "read" ELSE "flush")
    /\ UNCHANGED <<running, msg_buffer, msg_start_ns, last_rx_ns, data, exc, wake,
                   write_failed>>
    /\ UNCHANGED <<guiVars, sharedVars, worldVars>>

\* in_waiting raises: run()'s except branch
PollRaises(w) ==
    /\ pc[w] = "poll"
    /\ Raises(Src(w))
    /\ CountFault(Src(w))
    /\ Goto(w, "exc_lock")
    /\ UNCHANGED <<running, msg_buffer, msg_start_ns, last_rx_ns, in_wait, data,
                   exc, wake,
                   write_failed>>
    /\ UNCHANGED <<guiVars, sharedVars, rx, tx, injected, sent, clock, ticks,
                   longTicks>>

\* data = self.source_conn.read(in_wait)
Read(w) ==
    /\ pc[w] = "read"
    /\ isOpen[Src(w)]
    /\ data' = [data EXCEPT ![w] = SubSeq(rx[Src(w)], 1, in_wait[w])]
    /\ rx' = [rx EXCEPT ![Src(w)] =
                 SubSeq(rx[Src(w)], in_wait[w] + 1, Len(rx[Src(w)]))]
    /\ Goto(w, "append")
    /\ UNCHANGED <<running, msg_buffer, msg_start_ns, last_rx_ns, in_wait, exc,
                   wake,
                   write_failed>>
    /\ UNCHANGED <<guiVars, sharedVars, tx, injected, sent, clock, ticks,
                   longTicks, faults>>

\* read raises, with nothing taken from the endpoint: run()'s except branch
ReadRaises(w) ==
    /\ pc[w] = "read"
    /\ Raises(Src(w))
    /\ CountFault(Src(w))
    /\ Goto(w, "exc_lock")
    /\ UNCHANGED <<running, msg_buffer, msg_start_ns, last_rx_ns, in_wait, data,
                   exc, wake,
                   write_failed>>
    /\ UNCHANGED <<guiVars, sharedVars, rx, tx, injected, sent, clock, ticks,
                   longTicks>>

\* (variant: the burst is kept for a later write and the loop sleeps)
AppendRxDefers(w) ==
    /\ pc[w] = "append"
    /\ msg_start_ns' = [msg_start_ns EXCEPT ![w] =
                           IF msg_buffer[w] = <<>> THEN clock ELSE @]
    /\ msg_buffer' = [msg_buffer EXCEPT ![w] = @ \o data[w]]
    /\ last_rx_ns' = [last_rx_ns EXCEPT ![w] = clock]
    /\ Goto(w, "sleep")
    /\ SleepFor(w, TickNs)
    /\ UNCHANGED <<running, in_wait, data, exc, write_failed>>
    /\ UNCHANGED <<guiVars, sharedVars, worldVars>>

\* now_ns = time.time_ns(); _append_rx up to the write: start-of-frame
\* timestamp, msg_buffer.extend(data), last_rx_ns = now_ns
AppendRx(w) ==
    /\ pc[w] = "append"
    /\ msg_start_ns' = [msg_start_ns EXCEPT ![w] =
                           IF msg_buffer[w] = <<>> THEN clock ELSE @]
    /\ msg_buffer' = [msg_buffer EXCEPT ![w] = @ \o data[w]]
    /\ last_rx_ns' = [last_rx_ns EXCEPT ![w] = clock]
    /\ Goto(w, "write")
    /\ UNCHANGED <<running, in_wait, data, exc, wake,
                   write_failed>>
    /\ UNCHANGED <<guiVars, sharedVars, worldVars>>

\* (variant: the burst is written ahead of what was written before)
WritePrepends(w) ==
    /\ pc[w] = "write"
    /\ isOpen[Dst(w)]
    /\ tx' = [tx EXCEPT ![Dst(w)] = data[w] \o @]
    /\ data' = [data EXCEPT ![w] = <<>>]
    /\ Goto(w, "sleep")
    /\ SleepFor(w, TickNs)
    /\ UNCHANGED <<running, msg_buffer, msg_start_ns, last_rx_ns, in_wait, exc,
                   write_failed>>
    /\ UNCHANGED <<guiVars, sharedVars, rx, injected, sent, clock, ticks,
                   longTicks, faults>>

\* self.dest_conn.write(data), then back in run() the poll sleep
Write(w) ==
    /\ pc[w] = "write"
    /\ isOpen[Dst(w)]
    /\ tx' = [tx EXCEPT ![Dst(w)] = @ \o data[w]]
    /\ data' = [data EXCEPT ![w] = <<>>]
    /\ Goto(w, "sleep")
    /\ SleepFor(w, TickNs)
    /\ UNCHANGED <<running, msg_buffer, msg_start_ns, last_rx_ns, in_wait, exc,
                   write_failed>>
    /\ UNCHANGED <<guiVars, sharedVars, rx, injected, sent, clock, ticks,
                   longTicks, faults>>

\* (variant: a burst whose write raises is taken out of the frame again)
WriteRaisesUnbuffers(w) ==
    /\ pc[w] = "write"
    /\ Raises(Dst(w))
    /\ CountFault(Dst(w))
    /\ msg_buffer' = [msg_buffer EXCEPT ![w] =
                          SubSeq(@, 1, Len(@) - Len(data[w]))]
    /\ data' = [data EXCEPT ![w] = <<>>]
    /\ write_failed' = [write_failed EXCEPT ![w] = TRUE]
    /\ Goto(w, "werr_lock")
    /\ UNCHANGED <<running, msg_start_ns, last_rx_ns, in_wait, exc, wake>>
    /\ UNCHANGED <<guiVars, sharedVars, rx, tx, injected, sent, clock, ticks,
                   longTicks>>

\* write raises, with nothing written: _append_rx's except branch
WriteRaises(w) ==
    /\ pc[w] = "write"
    /\ Raises(Dst(w))
    /\ CountFault(Dst(w))
    /\ data' = [data EXCEPT ![w] = <<>>]
    /\ write_failed' = [write_failed EXCEPT ![w] = TRUE]
    /\ Goto(w, "werr_lock")
    /\ UNCHANGED <<running, msg_buffer, msg_start_ns, last_rx_ns, in_wait, exc,
                   wake>>
    /\ UNCHANGED <<guiVars, sharedVars, rx, tx, injected, sent, clock, ticks,
                   longTicks>>

(***************************************************************************)
(* _append_rx's except branch: the write-error event                       *)
(***************************************************************************)
WerrLock(w) ==
    /\ pc[w] = "werr_lock"
    /\ MutexLock(w)
    /\ Goto(w, "werr_emit")
    /\ UNCHANGED <<running, msg_buffer, msg_start_ns, last_rx_ns, in_wait, data,
                   exc, wake,
                   write_failed>>
    /\ UNCHANGED <<guiVars, log, sinkOk, worldVars>>

WerrEmit(w) ==
    /\ pc[w] = "werr_emit"
    /\ EmitBegin(w, "werr", WriteErrPrefix(w), "werr_tail", "werr_unlock")
    /\ UNCHANGED <<running, msg_buffer, msg_start_ns, last_rx_ns, in_wait, data,
                   wake,
                   write_failed>>
    /\ UNCHANGED <<guiVars, ui_log_mutex, sinkOk, worldVars>>

WerrTail(w) ==
    /\ pc[w] = "werr_tail"
    /\ EmitEnd(w, "werr", "\n", <<>>, "werr_unlock")
    /\ UNCHANGED <<running, msg_buffer, msg_start_ns, last_rx_ns, in_wait, data,
                   exc, wake,
                   write_failed>>
    /\ UNCHANGED <<guiVars, ui_log_mutex, sinkOk, worldVars>>

\* finally: unlock; then back in run() the poll sleep, or, when the emit
\* raised, run()'s except branch
WerrUnlock(w) ==
    /\ pc[w] = "werr_unlock"
    /\ MutexUnlock(w)
    /\ IF exc[w]
       THEN Goto(w, "exc_lock") /\ wake' = wake
       ELSE Goto(w, "sleep") /\ SleepFor(w, TickNs)
    /\ exc' = [exc EXCEPT ![w] = FALSE]
    /\ UNCHANGED <<running, msg_buffer, msg_start_ns, last_rx_ns, in_wait, data,
                   write_failed>>
    /\ UNCHANGED <<guiVars, log, sinkOk, worldVars>>

(***************************************************************************)
(* _flush_frame_if_due(time.time_ns()) in the loop                         *)
(***************************************************************************)
\* the two tests of _flush_frame_if_due
FlushNow(w, now_ns) ==
    /\ msg_buffer[w] # <<>>
    /\ FlushDue(now_ns, last_rx_ns[w], flush_gap_ns)

Flush(w) ==
    /\ pc[w] = "flush"
    /\ IF FlushNow(w, clock)
       THEN Goto(w, "fl_lock") /\ wake' = wake
       ELSE Goto(w, "sleep") /\ SleepFor(w, TickNs)
    /\ UNCHANGED <<running, msg_buffer, msg_start_ns, last_rx_ns, in_wait, data,
                   exc,
                   write_failed>>
    /\ UNCHANGED <<guiVars, sharedVars, worldVars>>

FlLock(w) ==
    /\ pc[w] = "fl_lock"
    /\ MutexLock(w)
    /\ Goto(w, "fl_emit")
    /\ UNCHANGED <<running, msg_buffer, msg_start_ns, last_rx_ns, in_wait, data,
                   exc, wake,
                   write_failed>>
    /\ UNCHANGED <<guiVars, log, sinkOk, worldVars>>

FlEmit(w) ==
    /\ pc[w] = "fl_emit"
    /\ EmitBegin(w, "frame", FramePrefix(w), "fl_tail", "fl_unlock")
    /\ UNCHANGED <<running, msg_buffer, msg_start_ns, last_rx_ns, in_wait, data,
                   wake,
                   write_failed>>
    /\ UNCHANGED <<guiVars, ui_log_mutex, sinkOk, worldVars>>

FlTail(w) ==
    /\ pc[w] = "fl_tail"
    /\ EmitEnd(w, "frame", FrameRest(w), msg_buffer[w], "fl_unlock")
    /\ UNCHANGED <<running, msg_buffer, msg_start_ns, last_rx_ns, in_wait, data,
                   exc, wake,
                   write_failed>>
    /\ UNCHANGED <<guiVars, ui_log_mutex, sinkOk, worldVars>>

\* (variant: the timestamps are reset and the bytes are kept)
ClearFrameKeepsBytes(w) ==
    /\ msg_buffer' = msg_buffer
    /\ msg_start_ns' = [msg_start_ns EXCEPT ![w] = 0]
    /\ last_rx_ns' = [last_rx_ns EXCEPT ![w] = 0]

\* msg_buffer.clear(); msg_start_ns = 0; last_rx_ns = 0
ClearFrame(w) ==
    /\ msg_buffer' = [msg_buffer EXCEPT ![w] = <<>>]
    /\ msg_start_ns' = [msg_start_ns EXCEPT ![w] = 0]
    /\ last_rx_ns' = [last_rx_ns EXCEPT ![w] = 0]

\* finally: unlock; then the frame is cleared and the loop sleeps, or, when
\* the emit raised, the frame is kept and run()'s except branch is taken
FlUnlock(w) ==
    /\ pc[w] = "fl_unlock"
    /\ MutexUnlock(w)
    /\ IF exc[w]
       THEN /\ Goto(w, "exc_lock")
            /\ UNCHANGED <<msg_buffer, msg_start_ns, last_rx_ns, wake>>
       ELSE /\ ClearFrame(w)
            /\ Goto(w, "sleep")
            /\ SleepFor(w, TickNs)
    /\ exc' = [exc EXCEPT ![w] = FALSE]
    /\ UNCHANGED <<running, in_wait, data,
                   write_failed>>
    /\ UNCHANGED <<guiVars, log, sinkOk, worldVars>>

\* time.sleep(self.poll_interval_s) ends
SleepEnd(w) ==
    /\ pc[w] = "sleep"
    /\ clock >= wake[w]
    /\ wake' = [wake EXCEPT ![w] = 0]
    /\ Goto(w, "while")
    /\ UNCHANGED <<running, msg_buffer, msg_start_ns, last_rx_ns, in_wait, data,
                   exc,
                   write_failed>>
    /\ UNCHANGED <<guiVars, sharedVars, worldVars>>

(***************************************************************************)
(* run()'s except branch: the loop-error event and the backoff             *)
(***************************************************************************)
ExcLock(w) ==
    /\ pc[w] = "exc_lock"
    /\ MutexLock(w)
    /\ Goto(w, "exc_emit")
    /\ UNCHANGED <<running, msg_buffer, msg_start_ns, last_rx_ns, in_wait, data,
                   exc, wake,
                   write_failed>>
    /\ UNCHANGED <<guiVars, log, sinkOk, worldVars>>

ExcEmit(w) ==
    /\ pc[w] = "exc_emit"
    /\ EmitBegin(w, "lerr", LoopErrPrefix(w), "exc_tail", "exc_unlock")
    /\ UNCHANGED <<running, msg_buffer, msg_start_ns, last_rx_ns, in_wait, data,
                   wake,
                   write_failed>>
    /\ UNCHANGED <<guiVars, ui_log_mutex, sinkOk, worldVars>>

ExcTail(w) ==
    /\ pc[w] = "exc_tail"
    /\ EmitEnd(w, "lerr", "\n", <<>>, "exc_unlock")
    /\ UNCHANGED <<running, msg_buffer, msg_start_ns, last_rx_ns, in_wait, data,
                   exc, wake,
                   write_failed>>
    /\ UNCHANGED <<guiVars, ui_log_mutex, sinkOk, worldVars>>

\* finally: unlock; then time.sleep(0.2), or, when the emit raised, the
\* exception leaves run() and the thread ends
ExcUnlock(w) ==
    /\ pc[w] = "exc_unlock"
    /\ MutexUnlock(w)
    /\ IF exc[w]
       THEN Goto(w, "crashed") /\ wake' = wake
       ELSE Goto(w, "backoff") /\ SleepFor(w, BackoffNs)
    /\ exc' = [exc EXCEPT ![w] = FALSE]
    /\ UNCHANGED <<running, msg_buffer, msg_start_ns, last_rx_ns, in_wait, data,
                   write_failed>>
    /\ UNCHANGED <<guiVars, log, sinkOk, worldVars>>

\* time.sleep(0.2) ends
BackoffEnd(w) ==
    /\ pc[w] = "backoff"
    /\ clock >= wake[w]
    /\ wake' = [wake EXCEPT ![w] = 0]
    /\ Goto(w, "while")
    /\ UNCHANGED <<running, msg_buffer, msg_start_ns, last_rx_ns, in_wait, data,
                   exc,
                   write_failed>>
    /\ UNCHANGED <<guiVars, sharedVars, worldVars>>

(***************************************************************************)
(* The flush after the loop:                                               *)
(* _flush_frame_if_due(time.time_ns() + self.flush_gap_ns + 1)             *)
(***************************************************************************)
FinalNow == clock + flush_gap_ns + 1

FinalFlush(w) ==
    /\ pc[w] = "final"
    /\ Goto(w, IF FlushNow(w, FinalNow) THEN "ff_lock" ELSE "done")
    /\ UNCHANGED <<running, msg_buffer, msg_start_ns, last_rx_ns, in_wait, data,
                   exc, wake,
                   write_failed>>
    /\ UNCHANGED <<guiVars, sharedVars, worldVars>>

FfLock(w) ==
    /\ pc[w] = "ff_lock"
    /\ MutexLock(w)
    /\ Goto(w, "ff_emit")
    /\ UNCHANGED <<running, msg_buffer, msg_start_ns, last_rx_ns, in_wait, data,
                   exc, wake,
                   write_failed>>
    /\ UNCHANGED <<guiVars, log, sinkOk, worldVars>>

FfEmit(w) ==
    /\ pc[w] = "ff_emit"
    /\ EmitBegin(w, "frame", FramePrefix(w), "ff_tail", "ff_unlock")
    /\ UNCHANGED <<running, msg_buffer, msg_start_ns, last_rx_ns, in_wait, data,
                   wake,
                   write_failed>>
    /\ UNCHANGED <<guiVars, ui_log_mutex, sinkOk, worldVars>>

FfTail(w) ==
    /\ pc[w] = "ff_tail"
    /\ EmitEnd(w, "frame", FrameRest(w), msg_buffer[w], "ff_unlock")
    /\ UNCHANGED <<running, msg_buffer, msg_start_ns, last_rx_ns, in_wait, data,
                   exc, wake,
                   write_failed>>
    /\ UNCHANGED <<guiVars, ui_log_mutex, sinkOk, worldVars>>

\* finally: unlock; then the frame is cleared, or, when the emit raised,
\* "except Exception: pass" with the frame kept; run() returns
FfUnlock(w) ==
    /\ pc[w] = "ff_unlock"
    /\ MutexUnlock(w)
    /\ IF exc[w]
       THEN UNCHANGED <<msg_buffer, msg_start_ns, last_rx_ns,
                   write_failed>>
       ELSE ClearFrame(w)
    /\ Goto(w, "done")
    /\ exc' = [exc EXCEPT ![w] = FALSE]
    /\ UNCHANGED <<running, in_wait, data, wake,
                   write_failed>>
    /\ UNCHANGED <<guiVars, log, sinkOk, worldVars>>

(***************************************************************************)
(* The world: bytes arriving, time passing, the display going away.        *)
(***************************************************************************)
SessionOpen == \E p \in Ports : isOpen[p]

\* a byte arrives at an open endpoint
Inject(p) ==
    /\ isOpen[p]
    /\ sent < MaxInject
    /\ LET b == ByteStream[sent + 1]
       IN  /\ rx' = [rx EXCEPT ![p] = Append(@, b)]
           /\ injected' = [injected EXCEPT ![p] =
                               Append(@, [byte |-> b, at |-> clock])]
    /\ sent' = sent + 1
    /\ UNCHANGED <<guiVars, workerVars, sharedVars, tx, clock, ticks, longTicks,
                   faults>>

\* one poll interval passes
Tick ==
    /\ SessionOpen
    /\ ticks < MaxTicks
    /\ clock' = clock + TickNs
    /\ ticks' = ticks + 1
    /\ UNCHANGED <<guiVars, workerVars, sharedVars, rx, tx, injected, sent,
                   longTicks, faults>>

\* one backoff period of 0.2 s passes
TickLong ==
    /\ SessionOpen
    /\ longTicks < MaxLongTicks
    /\ clock' = clock + BackoffNs
    /\ longTicks' = longTicks + 1
    /\ UNCHANGED <<guiVars, workerVars, sharedVars, rx, tx, injected, sent,
                   ticks, faults>>

\* from now on log_signal.emit raises
BreakSink ==
    /\ SessionOpen
    /\ sinkOk
    /\ sinkOk' = FALSE
    /\ UNCHANGED <<guiVars, workerVars, ui_log_mutex, log, worldVars>>

(***************************************************************************)
(* The program.                                                            *)
(***************************************************************************)
GuiStep(rates) ==
    \/ ToggleConnection
    \/ CloseEvent
    \/ ConnectValidate(rates)
    \/ ConnectOpenA
    \/ ConnectOpenB
    \/ ConnectCleanup
    \/ ConnectConstruct
    \/ ConnectStartAtoB
    \/ ConnectStartBtoA
    \/ ConnectReturn
    \/ \E w \in Dirs : DisconnectStop(w)
    \/ \E w \in Dirs : DisconnectWait(w)
    \/ DisconnectClose

WorkerStep(w) ==
    \/ RunBegin(w)
    \/ WhileRunning(w)
    \/ Poll(w)
    \/ PollRaises(w)
    \/ Read(w)
    \/ ReadRaises(w)
    \/ AppendRx(w)
    \/ Write(w)
    \/ WriteRaises(w)
    \/ WerrLock(w)
    \/ WerrEmit(w)
    \/ WerrTail(w)
    \/ WerrUnlock(w)
    \/ Flush(w)
    \/ FlLock(w)
    \/ FlEmit(w)
    \/ FlTail(w)
    \/ FlUnlock(w)
    \/ SleepEnd(w)
    \/ ExcLock(w)
    \/ ExcEmit(w)
    \/ ExcTail(w)
    \/ ExcUnlock(w)
    \/ BackoffEnd(w)
    \/ FinalFlush(w)
    \/ FfLock(w)
    \/ FfEmit(w)
    \/ FfTail(w)
    \/ FfUnlock(w)

WorldStep ==
    \/ \E p \in Ports : Inject(p)
    \/ Tick
    \/ TickLong
    \/ BreakSink

Next ==
    \/ GuiStep(Bauds)
    \/ \E w \in Dirs : WorkerStep(w)
    \/ WorldStep

Spec == Init /\ [][Next]_vars

(***************************************************************************)
(* The pair forwarding: both workers, bytes at both endpoints, writes that *)
(* may raise, the display staying, the baud rate left at its default and   *)
(* time passing in backoff periods only (after one, every sleep has ended  *)
(* and every frame is due).                                                *)
(***************************************************************************)
FrameStep(w) ==
    \/ RunBegin(w)
    \/ WhileRunning(w)
    \/ Poll(w)
    \/ Read(w)
    \/ AppendRx(w)
    \/ Write(w)
    \/ Flush(w)
    \/ FlLock(w)
    \/ FlEmit(w)
    \/ FlTail(w)
    \/ FlUnlock(w)
    \/ SleepEnd(w)
    \/ FinalFlush(w)
    \/ FfLock(w)
    \/ FfEmit(w)
    \/ FfTail(w)
    \/ FfUnlock(w)

WriteErrorStep(w) ==
    \/ WriteRaises(w)
    \/ WerrLock(w)
    \/ WerrEmit(w)
    \/ WerrTail(w)
    \/ WerrUnlock(w)

NextPair ==
    \/ GuiStep({DefaultBaud})
    \/ \E w \in Dirs : FrameStep(w)
    \/ \E w \in Dirs : WriteErrorStep(w)
    \/ \E p \in Ports : Inject(p)
    \/ TickLong

SpecPair == Init /\ [][NextPair]_vars

(***************************************************************************)
(* The pair at the log: both workers, bytes at endpoint A only, endpoint   *)
(* operations that may raise and a display that may go away, the baud rate *)
(* left at its default and time passing in backoff periods only.           *)
(***************************************************************************)
NextLock ==
    \/ GuiStep({DefaultBaud})
    \/ \E w \in Dirs : WorkerStep(w)
    \/ Inject("A")
    \/ TickLong
    \/ BreakSink

SpecLock == Init /\ [][NextLock]_vars

(***************************************************************************)
(* One direction under the clock: the behaviours in which only the A->B    *)
(* worker has been scheduled, bytes arrive at endpoint A only, no endpoint *)
(* operation raises and the display stays, with time passing in poll       *)
(* intervals.                                                              *)
(***************************************************************************)
NextFrame ==
    \/ ToggleConnection
    \/ CloseEvent
    \/ ConnectValidate(Bauds)
    \/ ConnectOpenA
    \/ ConnectOpenB
    \/ ConnectCleanup
    \/ ConnectConstruct
    \/ ConnectStartAtoB
    \/ ConnectStartBtoA
    \/ ConnectReturn
    \/ DisconnectStop("AtoB")
    \/ DisconnectWait("AtoB")
    \/ FrameStep("AtoB")
    \/ Inject("A")
    \/ Tick

SpecFrame == Init /\ [][NextFrame]_vars

(***************************************************************************)
(* Properties of the pair forwarding (SpecPair).                           *)
(***************************************************************************)
\* the bytes that have arrived at endpoint p since it was opened, in order
Arrived(p) == [i \in 1..Len(injected[p]) |-> injected[p][i].byte]

\* a worker is between two loop iterations' read and write
AtIterationBoundary(w) == pc[w] \notin {"append", "write"}

WorkerLive(w) == pc[w] \notin NotStarted \cup Terminated

C4_ClosedOnlyAfterWorkersEnded ==
    /\ \A w \in Dirs : pc[w] # "none" => \A p \in Ports : isOpen[p]
    /\ guiPc = "d_close" => \A w \in Dirs : pc[w] = "none"

\* disconnect has closed both endpoints after frames were logged
C4_DisconnectedAfterTraffic ==
    /\ guiPc \in {"idle", "exited"}
    /\ \A p \in Ports : ~isOpen[p]
    /\ \E i \in 1..Len(log) : log[i].kind = "frame"

OpenFailed == lastError \in {"open_failed_A", "open_failed_B"}

\* C9: when opening either endpoint fails, connect returns with both handles
\* absent, no endpoint left open, no worker created and the error reported.
C9_FailedConnectLeavesNothing ==
    (guiPc = "idle" /\ OpenFailed) =>
        /\ \A p \in Ports : serial[p] = "None" /\ ~isOpen[p]
        /\ \A w \in Dirs : thread[w] = "None" /\ pc[w] = "none"

\* endpoint A had opened when opening endpoint B failed, and connect returned
C9_SecondOpenFailed == guiPc = "idle" /\ lastError = "open_failed_B"

\* C10 as stated: once connect has returned successfully, both workers have
\* entered Running.
C10_RunningWhenConnectReturns ==
    (guiPc = "idle" /\ Connected) =>
        \A w \in Dirs : running[w] /\ pc[w] \notin NotStarted \cup {"ready"}

\* C3 as stated, in its finite form: stop() is never lost; while disconnect
\* waits for a worker, that worker has terminated or its running flag is
\* still false, so that the loop observes it and the wait returns.
C3_StopIsObserved ==
    \A w \in Dirs :
        guiPc = WaitPc(w) => (pc[w] \in Terminated \/ ~running[w])

(***************************************************************************)
(* Properties of the pair at the log (SpecLock).                           *)
(***************************************************************************)
AtLock(w) == pc[w] \in {"fl_lock", "werr_lock", "exc_lock", "ff_lock"}

AtTail(w) == pc[w] \in {"fl_tail", "werr_tail", "exc_tail", "ff_tail"}

\* between lock() returning and unlock() returning
InEmission(w) ==
    \/ AtTail(w)
    \/ pc[w] \in {"fl_emit", "werr_emit", "exc_emit", "ff_emit"}
    \/ pc[w] \in {"fl_unlock", "werr_unlock", "exc_unlock", "ff_unlock"}

SameEvent(c, d) == c.dir = d.dir /\ c.kind = d.kind

\* C5: at most one worker is inside a log emission at any time, and the log
\* is a sequence of whole events: every prefix is followed at once by the
\* rest of the same event (or its worker is about to hand it over), and
\* every rest follows the prefix of the same event.
C5_OneEmitterWholeEvents ==
    /\ \A v, w \in Dirs : (InEmission(v) /\ InEmission(w)) => v = w
    /\ \A i \in 1..Len(log) :
        /\ log[i].part = "tail" =>
               (i > 1 /\ log[i - 1].part = "head" /\ SameEvent(log[i - 1], log[i]))
        /\ log[i].part = "head" =>
               IF i < Len(log)
               THEN log[i + 1].part = "tail" /\ SameEvent(log[i], log[i + 1])
               ELSE AtTail(log[i].dir)

\* one worker is handing over an event while the other waits for the lock
C5_EmitterAndWaiter ==
    \E v, w \in Dirs :
        v # w /\ AtTail(v) /\ AtLock(w) /\ ui_log_mutex = v

\* C6: the lock is held only by a worker inside an emission, which releases
\* it on its way out whether or not the emit raised; a worker that is not
\* emitting (running on, backing off, crashed or done) never holds it, so a
\* worker waiting for the lock waits only for an emission in progress.
C6_LockHeldOnlyWhileEmitting ==
    \A w \in Dirs :
        /\ ui_log_mutex = w => InEmission(w)
        /\ (AtLock(w) /\ ui_log_mutex # "free") =>
               (ui_log_mutex # w /\ InEmission(ui_log_mutex))

\* one worker's emissions raised until it crashed; the other holds the lock
C6_LockTakenAfterRaisedEmission ==
    \E v, w \in Dirs :
        v # w /\ pc[v] = "crashed" /\ ui_log_mutex = w

(***************************************************************************)
(* Properties of one direction under the clock (SpecFrame).                *)
(***************************************************************************)
\* C2 as stated: the final idle-time check always passes, so the
\* accumulator is empty when the worker has terminated.
C2_TerminatedWorkerFlushedAll ==
    \A w \in Dirs : pc[w] = "done" => msg_buffer[w] = <<>>

\* the frame events a worker has handed over, by their position in the log
Frames(w) ==
    {i \in 1..Len(log) :
        log[i].dir = w /\ log[i].kind = "frame" /\ log[i].part = "tail"}

\* the position in arrival order of byte b at endpoint p (each byte of the
\* stream arrives once)
ArrivalIndex(p, b) ==
    CHOOSE k \in 1..Len(injected[p]) : injected[p][k].byte = b

\* the time between the arrivals of bytes k and k + 1 at endpoint p
ArrivalGap(p, k) == injected[p][k + 1].at - injected[p][k].at

\* C7 as stated: no frame event holds two bytes in a row whose arrivals lie
\* 1.5 x flushGap or more apart.
C7_IdleGapSplitsFrames ==
    \A w \in Dirs :
        isOpen[Src(w)] =>
            \A f \in Frames(w) :
                \A j \in 1..(Len(log[f].bytes) - 1) :
                    LET k == ArrivalIndex(Src(w), log[f].bytes[j])
                    IN  ~FlushDue(injected[Src(w)][k + 1].at,
                                  injected[Src(w)][k].at, flush_gap_ns)

\* C8 as stated: while the worker runs (no stop asked for), no frame event
\* ends at a byte whose successor arrived less than flushGap after it.
C8_ShortGapNeverSplit ==
    \A w \in Dirs :
        (isOpen[Src(w)] /\ running[w] /\ guiPc = "idle") =>
            \A f \in Frames(w) :
                LET bytes == log[f].bytes
                    k == ArrivalIndex(Src(w), bytes[Len(bytes)])
                IN  k < Len(injected[Src(w)]) =>
                        ArrivalGap(Src(w), k) >= flush_gap_ns

(***************************************************************************)
(* What a worker has read, framed and failed to write.                     *)
(***************************************************************************)
Range(q) == {q[i] : i \in 1..Len(q)}

\* the bytes a worker has taken from its source, in read order
ReadBytes(w) ==
    SubSeq(Arrived(Src(w)), 1, Len(injected[Src(w)]) - Len(rx[Src(w)]))

\* the payloads of the first n log entries that are frame events of w
RECURSIVE FramedUpTo(_, _)
FramedUpTo(w, n) ==
    IF n = 0 THEN <<>>
    ELSE FramedUpTo(w, n - 1) \o (IF n \in Frames(w) THEN log[n].bytes ELSE <<>>)

\* the payloads of all frame events of w, in emission order
Framed(w) == FramedUpTo(w, Len(log))

\* the bytes w has read that are neither written nor about to be written
IsUnwritten(w, b) == b \notin Range(tx[Dst(w)]) /\ b \notin Range(data[w])
LostBytes(w) ==
    LET rd == ReadBytes(w)
    IN  {rd[i] : i \in {j \in 1..Len(rd) : IsUnwritten(w, rd[j])}}

\* the write-error events of w in the log
WriteErrors(w) ==
    {i \in 1..Len(log) :
        log[i].dir = w /\ log[i].kind = "werr" /\ log[i].part = "tail"}

AtWriteError(w) ==
    pc[w] \in {"werr_lock", "werr_emit", "werr_tail", "werr_unlock"}

C12_ReadFailureNeverEndsWorker ==
    \A w \in Dirs : ~(pc[w] = "crashed" /\ msg_buffer[w] = <<>>)

(***************************************************************************)
(* A worker constructed on its own: SerialForwarderThread.__init__ applied *)
(* to arguments inside and outside the ranges it clamps to.                *)
(***************************************************************************)
ArgBauds == {100, 300, 1200, 9600, 19200, 115200, 1000000, 3000000}
ArgBits == 8..MaxArgBits
ArgGaps == 0..MaxArgGap

\* SerialForwarderThread(..., baud, ..., gap_chars, bits_per_char)
Construct(baud, bits, gap_chars) ==
    /\ built = <<>>
    /\ built' = <<[baud |-> baud, bits_per_char |-> bits,
                   gap_chars |-> gap_chars,
                   char_time_ns |-> CharTimeNs(baud, bits),
                   flush_gap_ns |-> FlushGapNs(baud, bits, gap_chars),
                   poll_half_ns |-> PollIntervalHalfNs(baud, bits)]>>
    /\ UNCHANGED <<guiPc, guiOp, serial, isOpen, thread, baud_rate, lastError,
                   selection>>
    /\ UNCHANGED <<workerVars, sharedVars, worldVars>>

\* the object is dropped
Discard ==
    /\ built # <<>>
    /\ built' = <<>>
    /\ UNCHANGED <<guiPc, guiOp, serial, isOpen, thread, baud_rate, lastError,
                   selection>>
    /\ UNCHANGED <<workerVars, sharedVars, worldVars>>

NextTiming ==
    \/ \E baud \in ArgBauds, bits \in ArgBits, gap_chars \in ArgGaps :
           Construct(baud, bits, gap_chars)
    \/ Discard

SpecTiming == Init /\ [][NextTiming]_vars

\* the arguments are in the ranges the claims speak of
ArgsInRange ==
    /\ built # <<>>
    /\ built[1].baud >= MinBaud
    /\ built[1].bits_per_char >= MinBitsPerChar
    /\ built[1].gap_chars >= 1

\* 1e9 * bits * gap / baud, the flush gap of an exact char time: its whole
\* part and what is left over (taken in two parts to stay within 32 bits)
ExactGapFloor(baud, bits, gap) ==
    (NsPerSecond \div baud) * bits * gap
        + ((NsPerSecond % baud) * bits * gap) \div baud
ExactGapRest(baud, bits, gap) == ((NsPerSecond % baud) * bits * gap) % baud

\* C13 as stated, charTime being the exact quotient 1e9 * bits / baud:
\* flushGap = max(charTime * gapChars, 100000).
C13_FlushGapOfExactCharTime ==
    ArgsInRange =>
        LET fl == ExactGapFloor(built[1].baud, built[1].bits_per_char, built[1].gap_chars)
            rest == ExactGapRest(built[1].baud, built[1].bits_per_char, built[1].gap_chars)
        IN  IF fl >= MinFlushGapNs
            THEN rest = 0 /\ built[1].flush_gap_ns = fl
            ELSE built[1].flush_gap_ns = MinFlushGapNs

\* C13 amended: with charTime the whole number of nanoseconds
\* floor(1e9 * bits / baud), flushGap = max(charTime * gapChars, 100000),
\* flushGap >= 100000 ns and the poll interval is at least 0.0005 s.
C13_TimingBounds ==
    ArgsInRange =>
        /\ built[1].char_time_ns =
               ExactGapFloor(built[1].baud, built[1].bits_per_char, 1)
        /\ built[1].flush_gap_ns =
               Max(built[1].char_time_ns * built[1].gap_chars, MinFlushGapNs)
        /\ built[1].flush_gap_ns >= MinFlushGapNs
        /\ built[1].poll_half_ns >= MinPollHalfNs
        /\ built[1].poll_half_ns >= built[1].char_time_ns

\* a worker in range whose flush gap is the minimum, charTime * gapChars
\* being below it
C13_MinimumApplies ==
    /\ ArgsInRange
    /\ built[1].char_time_ns * built[1].gap_chars < MinFlushGapNs
    /\ built[1].flush_gap_ns = MinFlushGapNs

IsReferenceWorker ==
    /\ built # <<>>
    /\ built[1].baud = 9600 /\ built[1].bits_per_char = 10 /\ built[1].gap_chars = 3

\* C14 as stated: baud 9600, 10 bits, 3 gap chars give charTime 1,041,666 ns
\* and flushGap 3,125,000 ns.
C14_ReferenceValues ==
    IsReferenceWorker =>
        built[1].char_time_ns = 1041666 /\ built[1].flush_gap_ns = 3125000

\* C14 amended: they give charTime 1,041,666 ns and
\* flushGap = 3 * 1,041,666 = 3,124,998 ns.
C14_ReferenceValuesTruncated ==
    IsReferenceWorker =>
        built[1].char_time_ns = 1041666 /\ built[1].flush_gap_ns = 3124998

\* the reference worker has been constructed
C14_ReferenceWorkerBuilt == IsReferenceWorker /\ built[1].flush_gap_ns > MinFlushGapNs

(***************************************************************************)
(* Properties of the supervisor (SpecPair).                                *)
(***************************************************************************)
SameSelected == selection[1] = selection[2]

\* connect_ports is past its checks and has not returned
Connecting ==
    guiPc \in {"c_openA", "c_openB", "c_cleanup", "c_construct",
               "c_startAtoB", "c_startBtoA", "c_return"}

NothingHeld ==
    /\ \A p \in Ports : serial[p] = "None" /\ ~isOpen[p]
    /\ \A w \in Dirs : thread[w] = "None" /\ pc[w] = "none"

\* C15: with the same port selected for A and B connect_ports never gets to
\* open an endpoint; it returns with the must-differ error, all four handles
\* none as they were, nothing open and no worker; and no worker ever exists
\* on equal selections.
C15_IdenticalPortsRejected ==
    /\ Connecting => ~SameSelected
    /\ (guiPc = "idle" /\ lastError = "must_differ") =>
           (SameSelected /\ NothingHeld)
    /\ (\E w \in Dirs : pc[w] # "none") => ~SameSelected

\* connect_ports has returned from equal, non-empty selections
C15_RejectedIdentical ==
    /\ guiPc = "idle" /\ lastError = "must_differ"
    /\ SameSelected /\ selection[1] # ""

(***************************************************************************)
(* Properties of one loop iteration (SpecLock).                            *)
(***************************************************************************)
\* the last n elements of q
Suffix(q, n) == SubSeq(q, Len(q) - n + 1, Len(q))

\* C16: bytes a worker has read and not yet handed to the destination's
\* write exist only between the read and the write of one iteration, never
\* where a flush condition is evaluated, the lock is taken, or the worker
\* sleeps, backs off or ends; and what is about to be written is exactly
\* the burst just read, the last bytes taken from the source.
C16_WriteFollowsRead ==
    \A w \in Dirs :
        /\ data[w] # <<>> => pc[w] \in {"append", "write"}
        /\ pc[w] \in {"append", "write"} =>
            /\ data[w] # <<>>
            /\ Len(data[w]) <= Len(ReadBytes(w))
            /\ data[w] = Suffix(ReadBytes(w), Len(data[w]))
        /\ pc[w] = "write" =>
               data[w] = Suffix(msg_buffer[w], Len(data[w]))

\* a burst of two bytes has been read and is about to be written
C16_BurstAboutToBeWritten ==
    \E w \in Dirs : pc[w] = "write" /\ Len(data[w]) >= 2

(***************************************************************************)
(* Properties of the flush (SpecFrame).                                    *)
(***************************************************************************)
\* at the present time the idle time of w is at least 1.5 x flushGap
IdleLongEnough(w) == 2 * (clock - last_rx_ns[w]) >= 3 * flush_gap_ns

\* inside the frame emission of the loop, from the decision to the unlock
InLoopFlush(w) == pc[w] \in {"fl_lock", "fl_emit", "fl_tail", "fl_unlock"}

\* what one step of worker w does around a flush check
FlushStepOk(w) ==
    /\ (pc[w] = "flush" /\ pc'[w] = "fl_lock") =>
           (in_wait[w] = 0 /\ msg_buffer[w] # <<>> /\ IdleLongEnough(w))
    /\ (pc[w] = "flush" /\ pc'[w] = "sleep") =>
        /\ msg_buffer[w] = <<>> \/ ~IdleLongEnough(w)
        /\ log' = log
        /\ msg_buffer'[w] = msg_buffer[w]
        /\ msg_start_ns'[w] = msg_start_ns[w]
        /\ last_rx_ns'[w] = last_rx_ns[w]
    /\ (pc[w] = "fl_tail" /\ pc'[w] = "fl_unlock") =>
           (log' = Append(log, Chunk(w, "frame", "tail",
                                     HexData(msg_buffer[w]) \o "\n",
                                     msg_buffer[w])))
    /\ (pc[w] = "fl_unlock" /\ pc'[w] = "sleep") =>
           (msg_buffer'[w] = <<>> /\ msg_start_ns'[w] = 0 /\ last_rx_ns'[w] = 0)
    /\ (Len(log') > Len(log) /\ log'[Len(log')].kind = "frame"
            /\ log'[Len(log')].dir = w /\ running[w]) =>
           pc[w] \in {"fl_emit", "fl_tail"}

\* C17: while the worker runs, a frame event is emitted only after a poll
\* that found no bytes, with a non-empty accumulator idle for at least
\* 1.5 x flushGap; the event carries the accumulator; after it accumulator
\* and both timestamps are reset; a check that is not due emits nothing and
\* changes nothing; and an empty accumulator always has both timestamps 0.
C17_FlushOnlyWhenDueThenReset ==
    /\ [](\A w \in Dirs :
            /\ InLoopFlush(w) =>
                   (in_wait[w] = 0 /\ msg_buffer[w] # <<>> /\ IdleLongEnough(w))
            /\ msg_buffer[w] = <<>> =>
                   (msg_start_ns[w] = 0 /\ last_rx_ns[w] = 0))
    /\ [][\A w \in Dirs : FlushStepOk(w)]_vars

\* a running worker has emitted a frame from its loop, and checked again
\* with nothing due
C17_FlushedInLoop ==
    \E w \in Dirs :
        /\ running[w] /\ guiPc = "idle"
        /\ pc[w] = "sleep"
        /\ Frames(w) # {}
        /\ msg_buffer[w] = <<>>

(***************************************************************************)
(* Scope of the lock (SpecLock).                                           *)
(***************************************************************************)
AtEmit(w) == pc[w] \in {"fl_emit", "werr_emit", "exc_emit", "ff_emit"}

AtUnlock(w) == pc[w] \in {"fl_unlock", "werr_unlock", "exc_unlock", "ff_unlock"}

\* polling in_waiting, reading, writing, stamping a check or sleeping
AtEndpointOrAsleep(w) ==
    pc[w] \in {"poll", "read", "append", "write", "flush", "sleep", "backoff"}

\* what one step does to the lock as held by worker w: taken from a lock()
\* with nothing emitted yet, kept only along one emit call, given up by the
\* unlock() that follows it
LockStepOk(w) ==
    /\ (ui_log_mutex # w /\ ui_log_mutex' = w) =>
           (AtLock(w) /\ AtEmit(w)' /\ log' = log)
    /\ (ui_log_mutex = w /\ ui_log_mutex' = w /\ pc'[w] # pc[w]) =>
           \/ AtEmit(w) /\ (AtTail(w)' \/ AtUnlock(w)')
           \/ AtTail(w) /\ AtUnlock(w)'
    /\ (ui_log_mutex = w /\ ui_log_mutex' # w) =>
           (AtUnlock(w) /\ ui_log_mutex' = "free" /\ log' = log)

\* C18: a worker holds the lock only inside one emit call, from lock() to
\* the unlock() after that emit; a worker that polls, reads, writes, checks
\* for a flush, sleeps or backs off does not hold it.
C18_LockOnlyAroundOneEmit ==
    /\ [](\A w \in Dirs : AtEndpointOrAsleep(w) => ui_log_mutex # w)
    /\ [][\A w \in Dirs : LockStepOk(w)]_vars

\* one worker is about to unlock after its emit while the other, without
\* the lock, polls or sleeps
C18_HolderBesideBusyWorker ==
    \E v, w \in Dirs :
        /\ v # w
        /\ ui_log_mutex = w /\ AtUnlock(w) /\ ~exc[w]
        /\ pc[v] \in {"poll", "sleep"}

(***************************************************************************)
(* Frames and the received stream (SpecLock).                              *)
(***************************************************************************)
\* the burst run() has read and _append_rx has yet to add to the accumulator
BeingAppended(w) == IF pc[w] = "append" THEN data[w] ELSE <<>>

\* the accumulator, but for the one that has just been emitted and is about
\* to be cleared
Unflushed(w) ==
    IF pc[w] \in {"fl_unlock", "ff_unlock"} /\ ~exc[w] THEN <<>>
    ELSE msg_buffer[w]

\* C19 as stated: in every state the payloads of a worker's frame events so
\* far, followed by its accumulator, are exactly the bytes it has read.
C19_FramesThenAccumulatorAreReadBytes ==
    \A w \in Dirs :
        pc[w] # "none" => Framed(w) \o msg_buffer[w] = ReadBytes(w)

\* C19 amended: the same at every point of the worker outside two steps,
\* from a read to the extension of the accumulator (the burst is counted as
\* read and not yet accumulated) and from an emit to the clearing of the
\* accumulator (the frame is counted once, as emitted); no frame event has
\* an empty payload and each one's text is the hex form of its payload;
\* also after a write or an emit has raised.
C19_FramesPartitionReadBytes ==
    \A w \in Dirs :
        pc[w] # "none" =>
            /\ Framed(w) \o Unflushed(w) \o BeingAppended(w) = ReadBytes(w)
            /\ \A f \in Frames(w) :
                /\ log[f].bytes # <<>>
                /\ log[f].text = HexData(log[f].bytes) \o "\n"

\* a worker whose write raised has emitted a frame, and the display has
\* gone away since
C19_FramedDespiteFailures ==
    \E w \in Dirs :
        /\ WorkerLive(w)
        /\ Frames(w) # {}
        /\ write_failed[w]
        /\ ~sinkOk

(***************************************************************************)
(* The handles of the application between two operations (SpecPair).       *)
(***************************************************************************)
\* no handler of the GUI thread is running
AtRest == guiPc \in {"idle", "exited"}

WorkersSet == \A w \in Dirs : thread[w] = "Obj"
EndpointsOpen == \A p \in Ports : serial[p] = "Obj" /\ isOpen[p]

\* the steps by which connect_ports returns without a connection (a failed
\* check, a failed open) and by which disconnect_ports returns
ReturnsUnconnected ==
    /\ guiPc \in {"c_validate", "c_cleanup", "d_close"}
    /\ AtRest'

\* a worker that has ended stays ended until its object is dropped; a
\* worker is constructed where no worker was and no handle was set; only a
\* worker just constructed is started
WorkerLifeOk(w) ==
    /\ pc[w] \in Terminated => pc'[w] \in Terminated \cup {"none"}
    /\ (pc'[w] = "new" /\ pc[w] # "new") =>
           (pc[w] = "none" /\ thread[w] = "None" /\ thread'[w] = "Obj")
    /\ (pc'[w] = "ready" /\ pc[w] # "ready") => pc[w] = "new"

\* C20: between operations both worker handles are set exactly when both
\* endpoint handles are set and open, and then each handle has its worker;
\* otherwise all four handles are none and there is no worker.  A rejected
\* connect, a failed connect and every disconnect return with all four
\* none; a connect that succeeds constructs both workers anew and a worker
\* that has ended is never started again.
C20_HandlesConsistentAtRest ==
    /\ [](AtRest =>
            /\ WorkersSet <=> EndpointsOpen
            /\ \/ WorkersSet /\ EndpointsOpen /\ \A w \in Dirs : pc[w] # "none"
               \/ NothingHeld)
    /\ [][(ReturnsUnconnected => NothingHeld')
          /\ ((guiPc = "c_return" /\ AtRest') => (WorkersSet' /\ EndpointsOpen'))
          /\ \A w \in Dirs : WorkerLifeOk(w)]_vars

\* disconnect has returned from a session in which a frame was logged, all
\* four handles none
C20_DisconnectedAfterSession ==
    /\ guiPc = "idle" /\ lastError = "none"
    /\ NothingHeld
    /\ log # <<>>

====
